---- MODULE Spec2Model ----
(***************************************************************************)
(* Model of src/src/main.rs: the VSS writer enumeration (list_vss_writers), *)
(* the async-wait helper (wait_for_async), the formatters and main.         *)
(* External calls (COM / VSS) return a status code and out-values chosen    *)
(* nondeterministically; every external call is appended to `calls`.       *)
(***************************************************************************)
EXTENDS Integers, Sequences, FiniteSets, TLC

VARIABLES
    pc,            \* position of the single thread of control
    hr,            \* list_vss_writers: local `hr`
    p_vss,         \* list_vss_writers: `p_vss`, "null" or "live"
    m_vss_sync,    \* list_vss_writers: `m_vss_sync`, "null" or "live"
    wfa_hr,        \* wait_for_async: local `hr`
    hr_status,     \* wait_for_async: local `hr_status`
    async_ret,     \* <<>> until wait_for_async returned, then <<its return value>>
    writer_count,  \* list_vss_writers: `writer_count`
    i,             \* list_vss_writers: loop index
    writers,       \* list_vss_writers: local Vec `writers`
    main_writers,  \* main: `writers`, the value list_vss_writers returned
    printed,       \* main: number of records already printed by the for loop
    calls,         \* every external call made so far, in order
    stderr,        \* diagnostic lines (eprintln!)
    stdout,        \* standard output lines (println!)
    exitStatus,    \* <<>> while running, <<code>> once the process has exited
    hexIn,         \* status formatter harness: the input code
    hexOut         \* status formatter harness: <<>> or the formatted text

vars == <<pc, hr, p_vss, m_vss_sync, wfa_hr, hr_status, async_ret, writer_count,
          i, writers, main_writers, printed, calls, stderr, stdout, exitStatus,
          hexIn, hexOut>>

mainVars == <<pc, hr, p_vss, m_vss_sync, wfa_hr, hr_status, async_ret, writer_count,
              i, writers, main_writers, printed, calls, stderr, stdout, exitStatus>>

hexVars == <<hexIn, hexOut>>

(***************************************************************************)
(* Bounds                                                                  *)
(***************************************************************************)
MaxWriters == 3
HexSpread == 40

(***************************************************************************)
(* Status codes (winerror.h values)                                        *)
(***************************************************************************)
S_OK == 0
S_FALSE == 1
E_FAIL == -2147467259
E_POINTER == -2147467261
E_INVALIDARG == -2147024809

\* INFINITE (0xFFFFFFFF) as a u32, written <<high 16 bits, low 16 bits>>
INFINITE == <<65535, 65535>>

\* the codes an external call may return
StatusCodes == {S_OK, S_FALSE, E_FAIL}

Handles == {"null", "live"}

\* the FAILED(hr) macro: the sign bit is set
FAILED_NotSOk(code) == code # S_OK
FAILED_Never(code) == FALSE
FAILED(code) == code < 0

(***************************************************************************)
(* hresult_to_hex: format!("0x{:08X}", hr)                                 *)
(***************************************************************************)
UpperHexDigits == <<"0", "1", "2", "3", "4", "5", "6", "7",
                    "8", "9", "A", "B", "C", "D", "E", "F">>

LowerHexDigits == <<"0", "1", "2", "3", "4", "5", "6", "7",
                    "8", "9", "a", "b", "c", "d", "e", "f">>

\* `hr as u32`: the two's-complement bit pattern, as <<high 16 bits, low 16 bits>>
U32FromI32(code) == <<(code \div 65536) % 65536, code % 65536>>

\* the radix-16 digit values of a u32, most significant first, at least one digit
RECURSIVE RadixDigits(_)
RadixDigits(u) ==
    LET d == u[2] % 16
        q == <<u[1] \div 16, (u[2] \div 16) + ((u[1] % 16) * 4096)>>
    IN  IF q = <<0, 0>> THEN <<d>> ELSE Append(RadixDigits(q), d)

\* width-w, zero-flag padding: pads on the left, never truncates
ZeroPad(s, w) ==
    IF Len(s) >= w THEN s ELSE [k \in 1..(w - Len(s)) |-> "0"] \o s

UpperHex(code) ==
    LET ds == RadixDigits(U32FromI32(code))
    IN  [k \in 1..Len(ds) |-> UpperHexDigits[ds[k] + 1]]

hresult_to_hex_unpadded(code) == <<"0", "x">> \o UpperHex(code)
hresult_to_hex(code) == <<"0", "x">> \o ZeroPad(UpperHex(code), 8)

\* {} of an unsigned integer: decimal digits, most significant first
RECURSIVE DecimalDigits(_)
DecimalDigits(n) ==
    LET d == UpperHexDigits[(n % 10) + 1]
    IN  IF n \div 10 = 0 THEN <<d>> ELSE Append(DecimalDigits(n \div 10), d)

\* {:?} of a raw pointer: 0x and the address in lowercase hex, no padding
PointerDebug(addr) ==
    LET ds == RadixDigits(U32FromI32(addr))
    IN  <<"0", "x">> \o [k \in 1..Len(ds) |-> LowerHexDigits[ds[k] + 1]]

(***************************************************************************)
(* guid_to_string                                                          *)
(***************************************************************************)
\* the writers the subsystem may report: a writer id (GUID, abstracted to a
\* number) and the address of its name buffer
WriterData == { [guid |-> 1, name |-> 4096], [guid |-> 2, name |-> 43981] }

NoWriter == [guid |-> 0, name |-> 0]

\* StringFromGUID2(guid, buffer, cchMax): the braced text and a terminating
\* NUL when the buffer has room for 39 characters, length 0 otherwise
StringFromGUID2(guid, cchMax) ==
    IF cchMax >= 39
    THEN [len |-> 39, buf |-> (<<"{">> \o UpperHex(guid)) \o <<"}", "\\0">>]
    ELSE [len |-> 0, buf |-> <<"\\0">>]

RECURSIVE TrimEndNul(_)
TrimEndNul(s) ==
    IF Len(s) > 0 /\ s[Len(s)] = "\\0" THEN TrimEndNul(SubSeq(s, 1, Len(s) - 1)) ELSE s

guid_to_string(guid) ==
    LET r == StringFromGUID2(guid, 39)
    IN  IF r.len > 0 THEN TrimEndNul(r.buf) ELSE <<"Conversion failed">>

WriterDetails(w) ==
    [writer_id |-> guid_to_string(w.guid), writer_name |-> PointerDebug(w.name)]

(***************************************************************************)
(* Logs                                                                    *)
(***************************************************************************)
Call(op, code, arg, out) == [op |-> op, hr |-> code, arg |-> arg, out |-> out]

Line(text, arg) == [text |-> text, arg |-> arg]

Init ==
    /\ pc = "CoInitializeEx"
    /\ hr = 0
    /\ p_vss = "null"
    /\ m_vss_sync = "null"
    /\ wfa_hr = 0
    /\ hr_status = 0
    /\ async_ret = <<>>
    /\ writer_count = 0
    /\ i = 0
    /\ writers = <<>>
    /\ main_writers = <<>>
    /\ printed = 0
    /\ calls = <<>>
    /\ stderr = <<>>
    /\ stdout = <<>>
    /\ exitStatus = <<>>
    /\ hexIn = 0
    /\ hexOut = <<>>

(***************************************************************************)
(* The tests the code applies to each returned status                      *)
(***************************************************************************)
\* line 72: hr != S_OK
CoInitRejected(code) == code # S_OK

\* line 80: hr != S_OK || p_vss.is_null()
CreateRejected(code, h) == code # S_OK \/ h = "null"

\* line 91: hr != S_OK
InitRejected_FailedOnly(code) == FAILED(code)
InitRejected(code) == code # S_OK

\* line 102: FAILED(hr)
SetStateRejected(code) == FAILED(code)

\* line 115: hr != S_OK
GatherRejected(code) == code # S_OK

\* line 41: p_async.is_null()
AsyncIsNull_Unchecked(h) == FALSE
AsyncIsNull(h) == h = "null"

\* line 127: FAILED(hr) on the helper's return value
AsyncRejected(code) == FAILED(code)

\* line 137: FAILED(hr)
CountRejected_Unchecked(code) == FALSE
CountRejected(code) == FAILED(code)

\* line 151: `for i in 0..writer_count`, the index is in the half-open range
InRange_Inclusive(idx, n) == idx <= n
InRange(idx, n) == idx < n

\* line 175: GetWriterStatus(...) == S_OK
WriterAccepted_NotFailed(code) == ~FAILED(code)
WriterAccepted(code) == code = S_OK

\* the cleanup of an abort branch after the session was acquired:
\* (*p_vss).Release(); CoUninitialize();
AbortCleanup_NoUninit(log) ==
    Append(log, Call("Release", 0, <<>>, <<>>))
AbortCleanup_NoRelease(log) ==
    Append(log, Call("CoUninitialize", 0, <<>>, <<>>))
AbortCleanup_UninitFirst(log) ==
    Append(Append(log, Call("CoUninitialize", 0, <<>>, <<>>)),
           Call("Release", 0, <<>>, <<>>))
AbortCleanup(log) ==
    Append(Append(log, Call("Release", 0, <<>>, <<>>)),
           Call("CoUninitialize", 0, <<>>, <<>>))

\* main: the two println! of one loop iteration
WriterLines_IdOnly(w) ==
    << Line("Id: ", w.writer_id) >>
WriterLines(w) ==
    << Line("Id: ", w.writer_id), Line("Name: ", w.writer_name) >>

(***************************************************************************)
(* list_vss_writers                                                        *)
(***************************************************************************)
CoInitializeEx ==
    /\ pc = "CoInitializeEx"
    /\ \E r \in StatusCodes :
        LET log == Append(calls, Call("CoInitializeEx", r, <<"COINIT_APARTMENTTHREADED">>, <<>>))
        IN  /\ hr' = r
            /\ calls' = log
            /\ IF CoInitRejected(r)
               THEN /\ stderr' = Append(stderr, Line("CoInit failed with error: ", hresult_to_hex(r)))
                    /\ main_writers' = <<>>
                    /\ pc' = "main_header"
               ELSE /\ pc' = "CreateVssBackupComponents"
                    /\ UNCHANGED <<stderr, main_writers>>
    /\ UNCHANGED <<p_vss, m_vss_sync, wfa_hr, hr_status, async_ret, writer_count,
                   i, writers, printed, stdout, exitStatus, hexVars>>

CreateVssBackupComponents ==
    /\ pc = "CreateVssBackupComponents"
    /\ \E r \in StatusCodes, h \in Handles :
        LET log == Append(calls, Call("CreateVssBackupComponents", r, <<>>, h))
        IN  /\ hr' = r
            /\ p_vss' = h
            /\ IF CreateRejected(r, h)
               THEN /\ calls' = Append(log, Call("CoUninitialize", 0, <<>>, <<>>))
                    /\ stderr' = Append(stderr,
                          Line("CreateVssBackupComponents failed with error: ", hresult_to_hex(r)))
                    /\ main_writers' = <<>>
                    /\ pc' = "main_header"
               ELSE /\ calls' = log
                    /\ pc' = "InitializeForBackup"
                    /\ UNCHANGED <<stderr, main_writers>>
    /\ UNCHANGED <<m_vss_sync, wfa_hr, hr_status, async_ret, writer_count,
                   i, writers, printed, stdout, exitStatus, hexVars>>

InitializeForBackup ==
    /\ pc = "InitializeForBackup"
    /\ \E r \in StatusCodes :
        LET log == Append(calls, Call("InitializeForBackup", r, <<"null">>, <<>>))
        IN  /\ hr' = r
            /\ IF InitRejected(r)
               THEN /\ calls' = AbortCleanup(log)
                    /\ stderr' = Append(stderr,
                          Line("Initialize for backup failed with error: ", hresult_to_hex(r)))
                    /\ main_writers' = <<>>
                    /\ pc' = "main_header"
               ELSE /\ calls' = log
                    /\ pc' = "SetBackupState"
                    /\ UNCHANGED <<stderr, main_writers>>
    /\ UNCHANGED <<p_vss, m_vss_sync, wfa_hr, hr_status, async_ret, writer_count,
                   i, writers, printed, stdout, exitStatus, hexVars>>

SetBackupState ==
    /\ pc = "SetBackupState"
    /\ \E r \in StatusCodes :
        LET log == Append(calls,
                     Call("SetBackupState", r, <<FALSE, TRUE, "VSS_BT_FULL", FALSE>>, <<>>))
        IN  /\ hr' = r
            /\ IF SetStateRejected(r)
               THEN /\ calls' = AbortCleanup(log)
                    /\ stderr' = Append(stderr,
                          Line("Failed to set backup state with error: ", hresult_to_hex(r)))
                    /\ main_writers' = <<>>
                    /\ pc' = "main_header"
               ELSE /\ calls' = log
                    /\ pc' = "GatherWriterMetadata"
                    /\ UNCHANGED <<stderr, main_writers>>
    /\ UNCHANGED <<p_vss, m_vss_sync, wfa_hr, hr_status, async_ret, writer_count,
                   i, writers, printed, stdout, exitStatus, hexVars>>

GatherWriterMetadata ==
    /\ pc = "GatherWriterMetadata"
    /\ \E r \in StatusCodes, h \in Handles :
        LET log == Append(calls, Call("GatherWriterMetadata", r, <<>>, h))
        IN  /\ hr' = r
            /\ m_vss_sync' = h
            /\ IF GatherRejected(r)
               THEN /\ calls' = AbortCleanup(log)
                    /\ stderr' = Append(stderr,
                          Line("GatherWriterMetadata failed with error: ", hresult_to_hex(r)))
                    /\ main_writers' = <<>>
                    /\ pc' = "main_header"
               ELSE /\ calls' = log
                    /\ pc' = "wait_for_async"
                    /\ UNCHANGED <<stderr, main_writers>>
    /\ UNCHANGED <<p_vss, wfa_hr, hr_status, async_ret, writer_count,
                   i, writers, printed, stdout, exitStatus, hexVars>>

(***************************************************************************)
(* wait_for_async, and the caller's test of its return value (line 126)    *)
(***************************************************************************)
\* lines 126-132: hr = wait_for_async(m_vss_sync); if FAILED(hr) { abort }
AfterAsync(ret, log, err) ==
    IF AsyncRejected(ret)
    THEN [calls  |-> AbortCleanup(log),
          stderr |-> Append(err, Line("wait_for_async failed with error: ", hresult_to_hex(ret))),
          pc     |-> "main_header"]
    ELSE [calls |-> log, stderr |-> err, pc |-> "GetWriterStatusCount"]

\* lines 41-44: the null check
WaitForAsyncNull ==
    /\ pc = "wait_for_async"
    /\ AsyncIsNull(m_vss_sync)
    /\ LET next == AfterAsync(E_POINTER, calls, Append(stderr, Line("VSS async is null.", <<>>)))
       IN  /\ async_ret' = <<E_POINTER>>
           /\ hr' = E_POINTER
           /\ calls' = next.calls
           /\ stderr' = next.stderr
           /\ pc' = next.pc
           /\ main_writers' = <<>>
    /\ UNCHANGED <<p_vss, m_vss_sync, wfa_hr, hr_status, writer_count,
                   i, writers, printed, stdout, exitStatus, hexVars>>

\* lines 47-51: Wait(INFINITE)
Wait ==
    /\ pc = "wait_for_async"
    /\ ~AsyncIsNull(m_vss_sync)
    /\ \E r \in StatusCodes :
        LET log == Append(calls, Call("Wait", r, <<INFINITE>>, <<>>))
        IN  /\ wfa_hr' = r
            /\ IF FAILED(r)
               THEN LET next == AfterAsync(r, log,
                                  Append(stderr, Line("Wait failed with error: ", hresult_to_hex(r))))
                    IN  /\ async_ret' = <<r>>
                        /\ hr' = r
                        /\ calls' = next.calls
                        /\ stderr' = next.stderr
                        /\ pc' = next.pc
                        /\ main_writers' = <<>>
               ELSE /\ calls' = log
                    /\ pc' = "QueryStatus"
                    /\ UNCHANGED <<async_ret, hr, stderr, main_writers>>
    /\ UNCHANGED <<p_vss, m_vss_sync, hr_status, writer_count,
                   i, writers, printed, stdout, exitStatus, hexVars>>

\* lines 54-64: QueryStatus(&mut hr_status, null) and the return
QueryStatus ==
    /\ pc = "QueryStatus"
    /\ \E r \in StatusCodes, s \in StatusCodes :
        LET log  == Append(calls, Call("QueryStatus", r, <<>>, s))
            err  == IF FAILED(s)
                    THEN Append(stderr, Line("QueryStatus failed with error: ", hresult_to_hex(r)))
                    ELSE Append(stderr, Line("Result: ", hresult_to_hex(s)))
            next == AfterAsync(s, log, err)
        IN  /\ wfa_hr' = r
            /\ hr_status' = s
            /\ async_ret' = <<s>>
            /\ hr' = s
            /\ calls' = next.calls
            /\ stderr' = next.stderr
            /\ pc' = next.pc
            /\ main_writers' = IF next.pc = "main_header" THEN <<>> ELSE main_writers
    /\ UNCHANGED <<p_vss, m_vss_sync, writer_count,
                   i, writers, printed, stdout, exitStatus, hexVars>>

(***************************************************************************)
(* list_vss_writers: enumeration and teardown                              *)
(***************************************************************************)
GetWriterStatusCount ==
    /\ pc = "GetWriterStatusCount"
    /\ \E r \in StatusCodes, n \in 0..MaxWriters :
        LET log == Append(calls, Call("GetWriterStatusCount", r, <<>>, n))
        IN  /\ hr' = r
            /\ writer_count' = n
            /\ IF CountRejected(r)
               THEN /\ calls' = AbortCleanup(log)
                    /\ stderr' = Append(stderr,
                          Line("GetWriterStatusCount failed with error: ", hresult_to_hex(r)))
                    /\ main_writers' = <<>>
                    /\ pc' = "main_header"
                    /\ UNCHANGED <<writers, i>>
               ELSE /\ calls' = log
                    /\ writers' = <<>>
                    /\ stderr' = Append(stderr, Line("Number of writers: ", DecimalDigits(n)))
                    /\ i' = 0
                    /\ pc' = "for_i"
                    /\ UNCHANGED main_writers
    /\ UNCHANGED <<p_vss, m_vss_sync, wfa_hr, hr_status, async_ret,
                   printed, stdout, exitStatus, hexVars>>

\* lines 151-185: one iteration of `for i in 0..writer_count`
GetWriterStatus ==
    /\ pc = "for_i"
    /\ InRange(i, writer_count)
    /\ \E r \in StatusCodes, w \in WriterData :
        LET out == IF r = S_OK THEN w ELSE NoWriter
        IN  /\ calls' = Append(calls, Call("GetWriterStatus", r, <<i>>, out))
            /\ writers' = IF WriterAccepted(r)
                          THEN Append(writers, WriterDetails(out))
                          ELSE writers
    /\ i' = i + 1
    /\ UNCHANGED <<pc, hr, p_vss, m_vss_sync, wfa_hr, hr_status, async_ret, writer_count,
                   main_writers, printed, stderr, stdout, exitStatus, hexVars>>

\* lines 187-192: FreeWriterStatus(); Release(); CoUninitialize(); writers
Teardown ==
    /\ pc = "for_i"
    /\ ~InRange(i, writer_count)
    /\ \E r \in StatusCodes :
        calls' = Append(Append(Append(calls,
                     Call("FreeWriterStatus", r, <<>>, <<>>)),
                     Call("Release", 0, <<>>, <<>>)),
                     Call("CoUninitialize", 0, <<>>, <<>>))
    /\ main_writers' = writers
    /\ pc' = "main_header"
    /\ UNCHANGED <<hr, p_vss, m_vss_sync, wfa_hr, hr_status, async_ret, writer_count,
                   i, writers, printed, stderr, stdout, exitStatus, hexVars>>

(***************************************************************************)
(* main                                                                    *)
(***************************************************************************)
Header == Line("List of VSS Writers:", <<>>)

\* line 198
PrintHeader ==
    /\ pc = "main_header"
    /\ stdout' = Append(stdout, Header)
    /\ printed' = 0
    /\ pc' = "main_for"
    /\ UNCHANGED <<hr, p_vss, m_vss_sync, wfa_hr, hr_status, async_ret, writer_count,
                   i, writers, main_writers, calls, stderr, exitStatus, hexVars>>

\* lines 199-202: one iteration of `for writer in writers`
PrintWriter ==
    /\ pc = "main_for"
    /\ printed < Len(main_writers)
    /\ stdout' = stdout \o WriterLines(main_writers[printed + 1])
    /\ printed' = printed + 1
    /\ UNCHANGED <<pc, hr, p_vss, m_vss_sync, wfa_hr, hr_status, async_ret, writer_count,
                   i, writers, main_writers, calls, stderr, exitStatus, hexVars>>

\* line 203: main returns, the process exits with status 0
Exit ==
    /\ pc = "main_for"
    /\ printed >= Len(main_writers)
    /\ exitStatus' = <<0>>
    /\ pc' = "exited"
    /\ UNCHANGED <<hr, p_vss, m_vss_sync, wfa_hr, hr_status, async_ret, writer_count,
                   i, writers, main_writers, printed, calls, stderr, stdout, hexVars>>

Next ==
    \/ CoInitializeEx
    \/ CreateVssBackupComponents
    \/ InitializeForBackup
    \/ SetBackupState
    \/ GatherWriterMetadata
    \/ WaitForAsyncNull
    \/ Wait
    \/ QueryStatus
    \/ GetWriterStatusCount
    \/ GetWriterStatus
    \/ Teardown
    \/ PrintHeader
    \/ PrintWriter
    \/ Exit

Spec == Init /\ [][Next]_vars

\* main is a single sequential thread: whenever a step is enabled it is taken
FairSpec == Spec /\ WF_vars(Next)

(***************************************************************************)
(* Status formatter harness: hresult_to_hex applied to one code            *)
(***************************************************************************)
MinI32 == (-2147483647) - 1
MaxI32 == 2147483647

HexInputs ==
    (-HexSpread..HexSpread)
    \cup {MinI32, MinI32 + 1, MaxI32, MaxI32 - 1}
    \cup {S_OK, S_FALSE, E_FAIL, E_POINTER, E_INVALIDARG}
    \cup {16, 255, 256, 4095, 4096, 65535, 65536, 1048575, 1048576,
          16777215, 16777216, 268435455, 268435456, 271114, 11259375}
    \cup {-16, -255, -256, -4096, -65535, -65536, -65537, -1048576,
          -16777216, -268435456, -11259375}

HexInit ==
    /\ pc = "CoInitializeEx"
    /\ hr = 0
    /\ p_vss = "null"
    /\ m_vss_sync = "null"
    /\ wfa_hr = 0
    /\ hr_status = 0
    /\ async_ret = <<>>
    /\ writer_count = 0
    /\ i = 0
    /\ writers = <<>>
    /\ main_writers = <<>>
    /\ printed = 0
    /\ calls = <<>>
    /\ stderr = <<>>
    /\ stdout = <<>>
    /\ exitStatus = <<>>
    /\ hexIn \in HexInputs
    /\ hexOut = <<>>

HexFormat ==
    /\ hexOut = <<>>
    /\ hexOut' = hresult_to_hex(hexIn)
    /\ UNCHANGED <<hexIn, mainVars>>

HexNext == HexFormat

HexSpec == HexInit /\ [][HexNext]_vars

(***************************************************************************)
(* Vocabulary of the properties                                            *)
(***************************************************************************)
CallCount(op) == Cardinality({k \in DOMAIN calls : calls[k].op = op})

\* list_vss_writers has returned to main
Returned == pc \in {"main_header", "main_for", "exited"}

CleanupOps == {"Release", "CoUninitialize"}

\* the calls made through the session handle
SessionOps == {"InitializeForBackup", "SetBackupState", "GatherWriterMetadata",
               "GetWriterStatusCount", "GetWriterStatus", "FreeWriterStatus"}

HasCall(op) == \E k \in DOMAIN calls : calls[k].op = op

\* the code returned by the (single) call of op
CodeOf(op) == calls[CHOOSE k \in DOMAIN calls : calls[k].op = op].hr

OutOf(op) == calls[CHOOSE k \in DOMAIN calls : calls[k].op = op].out

\* the session was acquired: S_OK and a non-null handle
SessionAcquired ==
    /\ HasCall("CreateVssBackupComponents")
    /\ CodeOf("CreateVssBackupComponents") = 0
    /\ OutOf("CreateVssBackupComponents") = "live"

\* the pipeline stopped at call k: only cleanup follows, the result is empty
AbortedAt(k) ==
    /\ Returned
    /\ main_writers = <<>>
    /\ \A j \in DOMAIN calls : j > k => calls[j].op \in CleanupOps

\* the pipeline went on after call k
ContinuedAfter(k) ==
    IF k = Len(calls) THEN ~Returned ELSE calls[k + 1].op \notin CleanupOps

NoUseAfterRelease ==
    \A j, k \in DOMAIN calls :
        (j < k /\ calls[j].op = "Release") => calls[k].op \notin SessionOps

\* C1 (as stated): whenever list_vss_writers has returned, Release was called
\* at most once and CoUninitialize exactly once, whatever the external calls
\* returned, a failing CoInitializeEx included.
C1_UninitExactlyOnceAlways ==
    Returned => (CallCount("Release") <= 1 /\ CallCount("CoUninitialize") = 1)

\* C1 (amended): Release is called at most once; CoUninitialize is called
\* exactly once when CoInitializeEx returned S_OK and not at all when it
\* returned any other code.
C1_ReleaseAndUninit ==
    /\ CallCount("Release") <= 1
    /\ CallCount("CoUninitialize") <= 1
    /\ Returned =>
         CallCount("CoUninitialize") = (IF CodeOf("CoInitializeEx") = 0 THEN 1 ELSE 0)

C1_Witness ==
    /\ Returned
    /\ \E k \in DOMAIN calls : calls[k].op = "GatherWriterMetadata" /\ calls[k].hr < 0
    /\ CallCount("Release") = 1
    /\ CallCount("CoUninitialize") = 1

\* C2: when Wait succeeded and the QueryStatus call itself returned a failure
\* code, wait_for_async returns that code, hence never a success code.
C2_QueryStatusFailureReturned ==
    \A k \in DOMAIN calls :
        (calls[k].op = "QueryStatus" /\ calls[k].hr < 0 /\ async_ret # <<>>)
            => async_ret = <<calls[k].hr>>

\* C3 (as stated): at InitializeForBackup, SetBackupState, GatherWriterMetadata
\* and GetWriterStatusCount every status other than S_OK aborts the pipeline
\* at that step with an empty result.
C3_AnyNonSOkAborts ==
    \A k \in DOMAIN calls :
        (/\ calls[k].op \in {"InitializeForBackup", "SetBackupState",
                             "GatherWriterMetadata", "GetWriterStatusCount"}
         /\ calls[k].hr # 0)
            => AbortedAt(k)

\* C3 (amended): at InitializeForBackup and GatherWriterMetadata every status
\* other than S_OK aborts the pipeline; at SetBackupState and
\* GetWriterStatusCount exactly the negative statuses abort it, a positive
\* status lets the pipeline continue.  An abort makes no later pipeline call
\* and returns an empty list.
C3_StepFailureAborts ==
    \A k \in DOMAIN calls :
        /\ (calls[k].op \in {"InitializeForBackup", "GatherWriterMetadata"} /\ calls[k].hr # 0)
              => AbortedAt(k)
        /\ (calls[k].op \in {"SetBackupState", "GetWriterStatusCount"} /\ calls[k].hr < 0)
              => AbortedAt(k)
        /\ (calls[k].op \in {"SetBackupState", "GetWriterStatusCount"} /\ calls[k].hr > 0)
              => ContinuedAfter(k)

C3_Witness ==
    /\ Returned
    /\ \E k \in DOMAIN calls : calls[k].op = "SetBackupState" /\ calls[k].hr > 0
    /\ \E k \in DOMAIN calls : calls[k].op = "GetWriterStatusCount" /\ calls[k].hr > 0
    /\ main_writers # <<>>

\* C4 (as stated): once CreateVssBackupComponents has produced a non-null
\* handle, the handle is released exactly once on every exit path and is not
\* used after its Release.
C4_NonNullHandleReleasedOnce ==
    (HasCall("CreateVssBackupComponents") /\ OutOf("CreateVssBackupComponents") = "live")
        => /\ Returned => CallCount("Release") = 1
           /\ NoUseAfterRelease

\* C4 (amended): once CreateVssBackupComponents has returned S_OK together with
\* a non-null handle, the handle is released exactly once on every exit path
\* and is not used after its Release.
C4_AcquiredSessionReleasedOnce ==
    SessionAcquired
        => /\ Returned => CallCount("Release") = 1
           /\ NoUseAfterRelease

C4_Witness ==
    /\ SessionAcquired
    /\ Returned
    /\ HasCall("SetBackupState")
    /\ CodeOf("SetBackupState") < 0
    /\ CallCount("Release") = 1

\* every pipeline-level call was accepted by the code's test of it
AllAccepted ==
    /\ HasCall("CoInitializeEx") /\ CodeOf("CoInitializeEx") = 0
    /\ SessionAcquired
    /\ HasCall("InitializeForBackup") /\ CodeOf("InitializeForBackup") = 0
    /\ HasCall("SetBackupState") /\ CodeOf("SetBackupState") >= 0
    /\ HasCall("GatherWriterMetadata") /\ CodeOf("GatherWriterMetadata") = 0
    /\ async_ret # <<>> /\ async_ret[1] >= 0
    /\ HasCall("GetWriterStatusCount") /\ CodeOf("GetWriterStatusCount") >= 0

\* a pipeline-level call reported a failure code
SomePipelineCallFailed ==
    \/ \E k \in DOMAIN calls :
          /\ calls[k].op \in {"CoInitializeEx", "CreateVssBackupComponents",
                              "InitializeForBackup", "SetBackupState",
                              "GatherWriterMetadata", "GetWriterStatusCount"}
          /\ calls[k].hr < 0
    \/ async_ret # <<>> /\ async_ret[1] < 0

\* C5: when a pipeline-level call fails list_vss_writers returns an empty
\* list; a non-empty list is returned only when every pipeline-level call was
\* accepted.
C5_NoPartialList ==
    Returned =>
        /\ SomePipelineCallFailed => main_writers = <<>>
        /\ main_writers # <<>> => AllAccepted

C5_Witness ==
    /\ Returned
    /\ main_writers = <<>>
    /\ HasCall("GetWriterStatusCount")
    /\ CodeOf("GetWriterStatusCount") < 0
    /\ OutOf("GetWriterStatusCount") > 0

\* the per-writer queries made so far, in call order
Queries == SelectSeq(calls, LAMBDA c : c.op = "GetWriterStatus")

\* the records of the queries that returned S_OK, in query order
AcceptedRecords ==
    LET ok == SelectSeq(Queries, LAMBDA c : c.hr = 0)
    IN  [k \in 1..Len(ok) |-> WriterDetails(ok[k].out)]

\* C6: with writer count n the indices 0..n-1 are each queried once, in
\* increasing order, whatever earlier queries returned, and the returned list
\* is the subsequence of the records whose query returned S_OK, in index order.
C6_Enumeration ==
    /\ \A q \in 1..Len(Queries) : Queries[q].arg = <<q - 1>>
    /\ pc = "for_i" => (Len(Queries) = i /\ i <= writer_count /\ writers = AcceptedRecords)
    /\ (Returned /\ HasCall("FreeWriterStatus")) =>
          /\ Len(Queries) = OutOf("GetWriterStatusCount")
          /\ main_writers = AcceptedRecords
          /\ Len(main_writers) <= OutOf("GetWriterStatusCount")

C6_Witness ==
    /\ Returned
    /\ HasCall("GetWriterStatusCount")
    /\ OutOf("GetWriterStatusCount") = 3
    /\ Len(Queries) = 3
    /\ Queries[1].hr = 0 /\ Queries[2].hr < 0 /\ Queries[3].hr = 0
    /\ Queries[1].out # Queries[3].out
    /\ main_writers = <<WriterDetails(Queries[1].out), WriterDetails(Queries[3].out)>>

\* GatherWriterMetadata reported S_OK and yielded a null async handle
NullAsyncHandle ==
    /\ HasCall("GatherWriterMetadata")
    /\ CodeOf("GatherWriterMetadata") = 0
    /\ OutOf("GatherWriterMetadata") = "null"

\* C7: given a null handle wait_for_async returns E_POINTER without calling
\* Wait or QueryStatus; list_vss_writers then aborts with one Release, one
\* CoUninitialize and an empty list.
C7_NullAsyncAborts ==
    NullAsyncHandle =>
        /\ CallCount("Wait") = 0
        /\ CallCount("QueryStatus") = 0
        /\ async_ret # <<>> =>
              /\ async_ret = <<-2147467261>>
              /\ calls[Len(calls) - 1].op = "Release"
              /\ calls[Len(calls)].op = "CoUninitialize"
              /\ CallCount("Release") = 1
              /\ CallCount("CoUninitialize") = 1
              /\ Returned
              /\ main_writers = <<>>

C7_Witness ==
    /\ NullAsyncHandle
    /\ async_ret # <<>>
    /\ pc = "exited"

\* C8: when session creation succeeds and InitializeForBackup fails, standard
\* output is the header line alone, the diagnostic output is exactly one
\* initialization-failure message, the session handle is released exactly once
\* and no SetBackupState, GatherWriterMetadata, Wait or writer query is issued.
C8_InitializeFailure ==
    (SessionAcquired /\ HasCall("InitializeForBackup") /\ CodeOf("InitializeForBackup") # 0)
        => /\ stderr = << Line("Initialize for backup failed with error: ",
                               hresult_to_hex(CodeOf("InitializeForBackup"))) >>
           /\ CallCount("Release") = 1
           /\ \A k \in DOMAIN calls :
                 calls[k].op \notin {"SetBackupState", "GatherWriterMetadata", "Wait",
                                     "QueryStatus", "GetWriterStatusCount",
                                     "GetWriterStatus", "FreeWriterStatus"}
           /\ main_writers = <<>>
           /\ stdout \in {<<>>, <<Header>>}
           /\ pc = "exited" => stdout = <<Header>>

C8_Witness ==
    /\ SessionAcquired
    /\ HasCall("InitializeForBackup")
    /\ CodeOf("InitializeForBackup") > 0
    /\ pc = "exited"
    /\ stdout = <<Header>>

\* the header line followed by the Id line and the Name line of each record
ExpectedStdout ==
    [k \in 1..(1 + 2 * Len(main_writers)) |->
        IF k = 1 THEN Header
        ELSE IF k % 2 = 0
             THEN Line("Id: ", main_writers[k \div 2].writer_id)
             ELSE Line("Name: ", main_writers[(k - 1) \div 2].writer_name)]

\* C9: every run of main ends, with exit status 0, after printing the header
\* line once followed by the Id and Name lines of every returned record,
\* whatever the external calls returned.
C9_MainExitsZero ==
    <>[](pc = "exited" /\ exitStatus = <<0>> /\ stdout = ExpectedStdout)

C9_Witness ==
    /\ pc = "exited"
    /\ exitStatus = <<0>>
    /\ Len(main_writers) = 2
    /\ Len(stdout) = 5
    /\ \E k \in DOMAIN calls : calls[k].op = "GetWriterStatus" /\ calls[k].hr < 0

UpperHexSet == {UpperHexDigits[k] : k \in 1..16}

\* the value of one upper-case hex digit
DigitValue(c) == (CHOOSE k \in 1..16 : UpperHexDigits[k] = c) - 1

\* the value of a 4-digit group
GroupValue(s, from) ==
    ((DigitValue(s[from]) * 16 + DigitValue(s[from + 1])) * 16
        + DigitValue(s[from + 2])) * 16 + DigitValue(s[from + 3])

\* C10: hresult_to_hex yields exactly 10 characters, 0x and the 8 upper-case
\* zero-padded hex digits of the code modulo 2^32 (2 gives 0x00000002,
\* -2147024809 gives 0x80070057), without a sign character.
C10_HexFormat ==
    hexOut # <<>> =>
        /\ Len(hexOut) = 10
        /\ hexOut[1] = "0"
        /\ hexOut[2] = "x"
        /\ \A k \in 3..10 : hexOut[k] \in UpperHexSet
        /\ LET hi == GroupValue(hexOut, 3)
               lo == GroupValue(hexOut, 7)
           IN  IF hexIn >= 0
               THEN hi < 32768 /\ hi * 65536 + lo = hexIn
               ELSE hi >= 32768 /\ (hi - 65536) * 65536 + lo = hexIn
        /\ hexIn = 2 => hexOut = <<"0", "x", "0", "0", "0", "0", "0", "0", "0", "2">>
        /\ hexIn = -2147024809
              => hexOut = <<"0", "x", "8", "0", "0", "7", "0", "0", "5", "7">>

C10_Witness ==
    /\ hexIn = -2147024809
    /\ hexOut # <<>>
    /\ Len(hexOut) = 10

\* every call before the enumeration returned a non-failure code and passed
\* the code's test of it, QueryStatus's own return code included
AllSucceeded ==
    /\ AllAccepted
    /\ HasCall("Wait") /\ CodeOf("Wait") >= 0
    /\ HasCall("QueryStatus") /\ CodeOf("QueryStatus") >= 0

\* C11: when every pipeline call succeeds and the writer count is zero, no
\* GetWriterStatus is issued, the result is empty, FreeWriterStatus, Release
\* and CoUninitialize run once each, standard output is the header line alone
\* and the diagnostic output is the async result line and the writer-count
\* line, with no failure message.
C11_ZeroWriters ==
    (AllSucceeded /\ OutOf("GetWriterStatusCount") = 0)
        => /\ CallCount("GetWriterStatus") = 0
           /\ writers = <<>>
           /\ main_writers = <<>>
           /\ stderr = << Line("Result: ", hresult_to_hex(OutOf("QueryStatus"))),
                          Line("Number of writers: ", <<"0">>) >>
           /\ stdout \in {<<>>, <<Header>>}
           /\ Returned =>
                 /\ CallCount("FreeWriterStatus") = 1
                 /\ CallCount("Release") = 1
                 /\ CallCount("CoUninitialize") = 1
                 /\ calls[Len(calls) - 2].op = "FreeWriterStatus"
                 /\ calls[Len(calls) - 1].op = "Release"
                 /\ calls[Len(calls)].op = "CoUninitialize"
           /\ pc = "exited" => stdout = <<Header>>

C11_Witness ==
    /\ AllSucceeded
    /\ OutOf("GetWriterStatusCount") = 0
    /\ pc = "exited"
    /\ CallCount("FreeWriterStatus") = 1
    /\ stdout = <<Header>>

\* C12: the async handle is waited on at most once and queried at most once;
\* QueryStatus is called only directly after a Wait that returned a
\* non-failure code; when Wait returns a failure code wait_for_async returns
\* exactly that code without calling QueryStatus; every Wait is issued with
\* the INFINITE timeout.
C12_WaitOnceThenQueryOnce ==
    /\ CallCount("Wait") <= 1
    /\ CallCount("QueryStatus") <= 1
    /\ \A k \in DOMAIN calls :
          /\ calls[k].op = "QueryStatus"
                => (k > 1 /\ calls[k - 1].op = "Wait" /\ calls[k - 1].hr >= 0)
          /\ (calls[k].op = "Wait" /\ calls[k].hr < 0)
                => /\ CallCount("QueryStatus") = 0
                   /\ async_ret = <<calls[k].hr>>
          /\ calls[k].op = "Wait" => calls[k].arg = << <<65535, 65535>> >>

C12_Witness ==
    /\ pc = "exited"
    /\ HasCall("Wait")
    /\ CodeOf("Wait") < 0
    /\ async_ret = <<CodeOf("Wait")>>
    /\ CallCount("QueryStatus") = 0

\* C13: on every exit path with the session acquired, Release comes directly
\* before CoUninitialize and CoUninitialize is the last call; on the path that
\* completed the enumeration FreeWriterStatus is called exactly once, after
\* the last GetWriterStatus and directly before Release; on an abort path it
\* is never called.
C13_LifoCleanup ==
    /\ \A j, k \in DOMAIN calls : (j < k) => calls[j].op # "CoUninitialize"
    /\ (SessionAcquired /\ Returned) =>
          /\ Len(calls) >= 3
          /\ calls[Len(calls) - 1].op = "Release"
          /\ calls[Len(calls)].op = "CoUninitialize"
          /\ IF AllAccepted
             THEN /\ CallCount("FreeWriterStatus") = 1
                  /\ calls[Len(calls) - 2].op = "FreeWriterStatus"
                  /\ Len(Queries) = OutOf("GetWriterStatusCount")
                  /\ \A k \in DOMAIN calls :
                        calls[k].op = "GetWriterStatus" => k < Len(calls) - 2
             ELSE CallCount("FreeWriterStatus") = 0
    /\ ~Returned => CallCount("FreeWriterStatus") = 0

C13_Witness ==
    /\ SessionAcquired
    /\ pc = "exited"
    /\ AllAccepted
    /\ Len(Queries) = 2
    /\ calls[Len(calls) - 2].op = "FreeWriterStatus"
    /\ calls[Len(calls) - 3].op = "GetWriterStatus"

\* the forward order of the pipeline calls
PipelineOrder ==
    <<"CoInitializeEx", "CreateVssBackupComponents", "InitializeForBackup",
      "SetBackupState", "GatherWriterMetadata", "Wait", "QueryStatus",
      "GetWriterStatusCount", "GetWriterStatus">>

PipelineOps == {PipelineOrder[r] : r \in 1..9}

\* the pipeline calls made so far, in call order
PipelineCalls == SelectSeq(calls, LAMBDA c : c.op \in PipelineOps)

\* C14: the pipeline calls are issued in the fixed forward order
\* CoInitializeEx, CreateVssBackupComponents, InitializeForBackup,
\* SetBackupState, GatherWriterMetadata, Wait, QueryStatus,
\* GetWriterStatusCount, GetWriterStatus(0..n-1), each at most once (once per
\* index) and only after every earlier call before the enumeration returned a
\* non-failure code; after the first such call that returns a failure code
\* only Release and CoUninitialize are called.
C14_ForwardOrderNoRetry ==
    /\ \A k \in 1..Len(PipelineCalls) :
          /\ PipelineCalls[k].op = PipelineOrder[IF k <= 8 THEN k ELSE 9]
          /\ k > 8 => PipelineCalls[k].arg = <<k - 9>>
          /\ \A j \in 1..(k - 1) : j <= 8 => PipelineCalls[j].hr >= 0
    /\ \A j, k \in DOMAIN calls :
          (/\ j < k
           /\ calls[j].op \in PipelineOps
           /\ calls[j].op # "GetWriterStatus"
           /\ calls[j].hr < 0)
              => calls[k].op \in CleanupOps

\* the texts of the diagnostic lines wait_for_async prints
AsyncLineTexts ==
    {"VSS async is null.", "Wait failed with error: ",
     "QueryStatus failed with error: ", "Result: "}

\* the diagnostic lines printed by wait_for_async, in order
AsyncLines == SelectSeq(stderr, LAMBDA l : l.text \in AsyncLineTexts)

\* C15: a call of wait_for_async prints exactly one diagnostic line, and when
\* that line carries a status code it is the code the helper returns.
C15_AsyncLineCarriesReturnedCode ==
    /\ async_ret = <<>> => Len(AsyncLines) = 0
    /\ async_ret # <<>> =>
          /\ Len(AsyncLines) = 1
          /\ AsyncLines[1].arg # <<>> => AsyncLines[1].arg = hresult_to_hex(async_ret[1])

====
